---------------------------- MODULE Spec2Model ----------------------------
(***************************************************************************)
(* Model of flutter::KeyboardKeyChannelHandler                             *)
(* (shell/platform/windows/keyboard_key_channel_handler.cc).               *)
(*                                                                         *)
(* The handler turns a native key event into a JSON record, sends it on    *)
(* the "flutter/keyevent" channel together with a reply continuation that  *)
(* holds the caller's callback, and the continuation hands the "handled"   *)
(* field of the reply to that callback.                                    *)
(*                                                                         *)
(* 32-bit words that may use bit 31 (char32_t code points) are modelled as *)
(* the set of their set bit positions, a subset of 0..31: TLC's integers   *)
(* are 32-bit signed and cannot hold 0x80000000.  On this representation   *)
(* bitwise OR is union, bitwise AND is intersection, and bitwise NOT is    *)
(* the complement in 0..31.                                                *)
(***************************************************************************)
EXTENDS Integers, Sequences, FiniteSets, TLC

VARIABLES
    key_state,      \* host keyboard: the virtual keys GetKeyState reports down
    received,       \* the KeyboardHook calls made so far, in order (arguments)
    sent,           \* the channel_->Send calls made so far, in order
    pending,        \* indices of sent whose reply continuation is registered
    replies,        \* send index -> the reply payload delivered for it
    invoked,        \* call index -> the values its callback was invoked with
    cerr,           \* lines written to std::cerr
    pending_events, \* the handler's own count of pending events: the file
                    \* declares kMaxPendingEvents for it, and no statement
                    \* of the handler ever changes it
    crashed,        \* the process was ended by undefined behaviour / an abort
    alive           \* the handler is constructed and not yet destroyed

vars == <<key_state, received, sent, pending, replies, invoked, cerr,
          pending_events, crashed, alive>>

----------------------------------------------------------------------------
(* Bounds of the model.                                                     *)

\* KeyboardHook calls in one behaviour of Spec.
MaxCalls == 3

\* KeyboardHook calls in one behaviour of SpecEncode.
MaxEncodeCalls == 1

\* KeyboardHook calls made above the ceiling in one behaviour of SpecFlood.
MaxFloodExtra == 2
MaxPairCalls == 2
MaxSampleCalls == 2

----------------------------------------------------------------------------
(* Words and bit operations.                                                *)

WordBits == 0..31

\* The word of a natural number below 2^31.
Bits(n) == {i \in 0..30 : (n \div (2 ^ i)) % 2 = 1}

RECURSIVE NumFrom(_, _)
NumFrom(w, i) ==
    IF i > 31 THEN 0
    ELSE (IF i \in w THEN 2 ^ i ELSE 0) + NumFrom(w, i + 1)

\* The number a word stands for (only for words without bit 31).
Num(w) == NumFrom(w, 0)

BitOr(a, b) == a \cup b
BitAnd(a, b) == a \cap b
BitNot(a) == WordBits \ a

\* The literal 0x80000000 of _UndeadChar.
DeadKeyMarker == {31}

----------------------------------------------------------------------------
(* Program constants.                                                       *)

kHandledKey == "handled"
kWindowsKeyMap == "windows"
kKeyUp == "keyup"
kKeyDown == "keydown"

kMaxPendingEvents == 1000

kScancodeExtended == 57344

kShift == 1
kShiftLeft == 2
kShiftRight == 4
kControl == 8
kControlLeft == 16
kControlRight == 32
kAlt == 64
kAltLeft == 128
kAltRight == 256
kWinLeft == 512
kWinRight == 1024
kCapsLock == 2048
kNumLock == 4096
kScrollLock == 8192

\* <windows.h> message identifiers named by the switch of KeyboardHook.
WM_KEYDOWN == 256
WM_KEYUP == 257

----------------------------------------------------------------------------
(* Host keyboard state and the modifier sampler.                            *)

ModifierKeys ==
    << <<"VK_SHIFT", kShift>>, <<"VK_LSHIFT", kShiftLeft>>,
       <<"VK_RSHIFT", kShiftRight>>, <<"VK_CONTROL", kControl>>,
       <<"VK_LCONTROL", kControlLeft>>, <<"VK_RCONTROL", kControlRight>>,
       <<"VK_MENU", kAlt>>, <<"VK_LMENU", kAltLeft>>,
       <<"VK_RMENU", kAltRight>>, <<"VK_LWIN", kWinLeft>>,
       <<"VK_RWIN", kWinRight>>, <<"VK_CAPITAL", kCapsLock>>,
       <<"VK_NUMLOCK", kNumLock>>, <<"VK_SCROLL", kScrollLock>> >>

TrackedKeys == {ModifierKeys[i][1] : i \in 1..Len(ModifierKeys)}

\* A key the sampler never queries.
OtherKeys == {"VK_A"}

HostKeys == TrackedKeys \cup OtherKeys

RECURSIVE ModsFrom(_, _, _)
ModsFrom(ks, i, mods) ==
    IF i > Len(ModifierKeys) THEN mods
    ELSE ModsFrom(ks, i + 1,
                  IF ModifierKeys[i][1] \in ks
                  THEN BitOr(mods, Bits(ModifierKeys[i][2]))
                  ELSE mods)

\* Faulty variant: the last query, of VK_SCROLL, is missing.
GetModsForKeyState_NoScroll(ks) == Num(ModsFrom(ks \ {"VK_SCROLL"}, 1, {}))

\* Faulty variant: the mask is sampled for the first record and kept for the
\* later ones.
GetModsForKeyState_Cached(ks) ==
    IF sent = <<>> THEN Num(ModsFrom(ks, 1, {})) ELSE sent[1].event.modifiers

\* int GetModsForKeyState(): mods = 0; if (GetKeyState(VK_x) < 0) mods |= kX; ...
GetModsForKeyState(ks) == Num(ModsFrom(ks, 1, {}))

----------------------------------------------------------------------------
(* The encoder.                                                             *)

\* Faulty variant: the mask is written with one zero less (~0x8000000, bit 27).
_UndeadChar_ShortMask(ch) == BitAnd(ch, BitNot({27}))

\* uint32_t _UndeadChar(uint32_t ch) { return ch & ~0x80000000; }
_UndeadChar(ch) == BitAnd(ch, BitNot(DeadKeyMarker))

\* Faulty variant: the extended flag is not OR'd into the scan code.
ScanCodeField_NoExtended(scancode, extended) == scancode

\* scancode | (extended ? kScancodeExtended : 0)
ScanCodeField(scancode, extended) ==
    Num(BitOr(Bits(scancode),
              IF extended THEN Bits(kScancodeExtended) ELSE Bits(0)))

\* Faulty variant: case WM_KEYUP is missing, key-up falls to the default branch.
TypeOfAction_NoKeyUp(action) ==
    IF action = WM_KEYDOWN THEN kKeyDown ELSE ""

\* The switch on action: the "type" member, or "" for the default branch.
TypeOfAction(action) ==
    IF action = WM_KEYDOWN THEN kKeyDown
    ELSE IF action = WM_KEYUP THEN kKeyUp
    ELSE ""

\* Faulty variant: the default branch has no return and goes on to the Send.
ReachesSend_DefaultBreaks(action) == TRUE

\* Faulty variant: above the ceiling the event is dropped instead of sent.
ReachesSend_Throttled(action) ==
    /\ action \in {WM_KEYDOWN, WM_KEYUP}
    /\ Cardinality(pending) <= kMaxPendingEvents

\* Whether control leaves the switch by break and reaches channel_->Send
\* (the default branch returns).
ReachesSend(action) == TypeOfAction(action) # ""

\* Faulty variant: the key code and the scan code trade places.
Event_KeyScanSwapped(key, scancode, action, character, extended, ks) ==
    [keyCode            |-> ScanCodeField(scancode, extended),
     scanCode           |-> key,
     characterCodePoint |-> _UndeadChar(character),
     keymap             |-> kWindowsKeyMap,
     modifiers          |-> GetModsForKeyState(ks),
     type               |-> TypeOfAction(action)]

\* The document handed to channel_->Send.
Event(key, scancode, action, character, extended, ks) ==
    [keyCode            |-> key,
     scanCode           |-> ScanCodeField(scancode, extended),
     characterCodePoint |-> _UndeadChar(character),
     keymap             |-> kWindowsKeyMap,
     modifiers          |-> GetModsForKeyState(ks),
     type               |-> TypeOfAction(action)]

\* Faulty variant: a key-down of a key that was already down is encoded as a
\* repeat.
EventOf_Repeat(args, ks) ==
    [Event(args.key, args.scancode, args.action, args.character,
           args.extended, ks)
        EXCEPT !.type = IF args.was_down /\ @ = kKeyDown THEN "keyrepeat" ELSE @]

\* The document KeyboardHook builds from its arguments: was_down is among the
\* parameters, and no statement of the function reads it.
EventOf(args, ks) ==
    Event(args.key, args.scancode, args.action, args.character,
          args.extended, ks)

----------------------------------------------------------------------------
(* Reply payloads and the reply continuation.                               *)

\* A reply payload: whether the codec can decode it, and the members of the
\* decoded object.
ReplyHandled(b) ==
    [json |-> TRUE, members |-> {<<kHandledKey, IF b THEN "true" ELSE "false">>}]
ReplyNoHandled == [json |-> TRUE, members |-> {<<"other", "true">>}]
ReplyUndecodable == [json |-> FALSE, members |-> {}]

Payloads ==
    {ReplyHandled(TRUE), ReplyHandled(FALSE), ReplyNoHandled, ReplyUndecodable}

WellFormed(p) == p.json /\ \E m \in p.members : m[1] = kHandledKey

HandledOf(p) == (CHOOSE m \in p.members : m[1] = kHandledKey)[2] = "true"

\* What the continuation does with a payload: the callback invocations it
\* makes and whether the process ends.
\*   decoded == nullptr: (*decoded) dereferences a null unique_ptr, undefined
\*     behaviour: the process faults, or the read yields some value.
\*   no "handled" member: rapidjson's operator[] and GetBool assert; a build
\*     with the assertions compiled out reads the null value as false.
ReplyContinuation(p) ==
    IF ~p.json
    THEN {[crash |-> TRUE, calls |-> <<>>],
          [crash |-> FALSE, calls |-> <<TRUE>>],
          [crash |-> FALSE, calls |-> <<FALSE>>]}
    ELSE IF ~(\E m \in p.members : m[1] = kHandledKey)
    THEN {[crash |-> TRUE, calls |-> <<>>],
          [crash |-> FALSE, calls |-> <<FALSE>>]}
    ELSE {[crash |-> FALSE, calls |-> <<HandledOf(p)>>]}

----------------------------------------------------------------------------
(* State machine.                                                           *)

Init ==
    /\ key_state = {}
    /\ received = <<>>
    /\ sent = <<>>
    /\ pending = {}
    /\ replies = <<>>
    /\ invoked = <<>>
    /\ cerr = <<>>
    /\ pending_events = 0
    /\ crashed = FALSE
    /\ alive = TRUE

\* The host reports a key pressed or released.
HostKey(k) ==
    /\ ~crashed
    /\ k \in HostKeys
    /\ key_state' = IF k \in key_state THEN key_state \ {k}
                    ELSE key_state \cup {k}
    /\ UNCHANGED <<received, sent, pending, replies, invoked, cerr,
                   pending_events, crashed, alive>>

\* Faulty variant: replies are taken to arrive in send order, so a reply is
\* handed to the callback of the oldest request still pending.
ContinuationCallback_Fifo(s) ==
    sent[CHOOSE o \in pending : \A q \in pending : o <= q].callback

\* The callback a reply continuation holds: the lambda of the send at index s
\* captures the callback of its own call ([callback = std::move(callback)]).
ContinuationCallback(s) == sent[s].callback

\* Faulty variant: the hook waits for the reply of the request before it, so
\* it cannot run while a request is unanswered.
CanCall_WaitsForReply == ~crashed /\ alive /\ pending = {}

\* When the host can call KeyboardHook: whenever the process runs and the
\* handler exists; the function waits for nothing.
CanCall == ~crashed /\ alive

\* void KeyboardHook(key, scancode, action, character, extended, was_down,
\*                   callback): the callback of a call is identified by the
\* index of the call.
KeyboardHook(key, scancode, action, character, extended, was_down) ==
    LET call == Len(received) + 1
        args == [key |-> key, scancode |-> scancode, action |-> action,
                 character |-> character, extended |-> extended,
                 was_down |-> was_down]
        event == EventOf(args, key_state)
    IN  /\ CanCall
        /\ received' = Append(received, args)
        /\ IF TypeOfAction(action) = ""
           THEN \* default: report on std::cerr, callback(false)
                /\ cerr' = Append(cerr,
                        [msg |-> "Unknown key event action: ", action |-> action])
                /\ invoked' = Append(invoked, <<FALSE>>)
           ELSE /\ invoked' = Append(invoked, <<>>)
                /\ cerr' = cerr
        /\ IF ReachesSend(action)
           THEN \* channel_->Send(event, continuation holding callback)
                /\ sent' = Append(sent, [event |-> event, callback |-> call])
                /\ pending' = pending \cup {Len(sent) + 1}
           ELSE UNCHANGED <<sent, pending>>
        /\ UNCHANGED <<key_state, replies, pending_events, crashed, alive>>

\* The transport's contract: at most one reply per send, so only a send whose
\* continuation is still registered can be answered.
TransportDelivers(s) == s \in pending

\* The transport delivers the reply p for the send at index s: the continuation
\* registered by that send runs and is released.
Reply(s, p) ==
    /\ ~crashed
    /\ TransportDelivers(s)
    /\ pending' = pending \ {s}
    /\ replies' = replies @@ (s :> p)
    /\ \E o \in ReplyContinuation(p) :
          /\ invoked' = [invoked EXCEPT ![ContinuationCallback(s)] = @ \o o.calls]
          /\ crashed' = o.crash
    /\ UNCHANGED <<key_state, received, sent, cerr, pending_events, alive>>

\* The continuations the channel drops when it is destroyed: every request
\* still unanswered is discarded.
DiscardedAtTeardown == pending

\* ~KeyboardKeyChannelHandler() = default: destroys channel_.
Teardown ==
    /\ ~crashed
    /\ alive
    /\ alive' = FALSE
    /\ pending' = pending \ DiscardedAtTeardown
    /\ UNCHANGED <<key_state, received, sent, replies, invoked, cerr,
                   pending_events, crashed>>

----------------------------------------------------------------------------
(* Inputs.                                                                  *)

Keys == {65, 17}
ScanCodes == {30, 57373}
Actions == {WM_KEYDOWN, WM_KEYUP, 258}
\* 0x61, the dead-key caret 0x8000005E, 0x1F600 and 0xFFFFFFFF.
Chars == {Bits(97), Bits(94) \cup DeadKeyMarker, Bits(128512), WordBits}
EncodeHostKeys == {"VK_SHIFT", "VK_A"}

\* Protocol behaviours: few calls, every kind of action, every reply payload,
\* replies in any order.
Next ==
    \/ \E action \in Actions :
          /\ Len(received) < MaxCalls
          /\ KeyboardHook(65, 30, action, Bits(97), FALSE, FALSE)
    \/ \E s \in pending, p \in Payloads : Reply(s, p)
    \/ Teardown

Spec == Init /\ [][Next]_vars

\* Encoder behaviours: every combination of the arguments, under a changing
\* host keyboard state.
NextEncode ==
    \/ \E key \in Keys, scancode \in ScanCodes, action \in Actions,
          character \in Chars, extended \in BOOLEAN, was_down \in BOOLEAN :
          /\ Len(received) < MaxEncodeCalls
          /\ KeyboardHook(key, scancode, action, character, extended, was_down)
    \/ \E k \in EncodeHostKeys : HostKey(k)

SpecEncode == Init /\ [][NextEncode]_vars

\* Sampler behaviours: the host brings its keys, tracked or not, into any state,
\* then the hook samples it.
NextMods ==
    \/ \E k \in HostKeys : received = <<>> /\ HostKey(k)
    \/ \E action \in {WM_KEYDOWN, WM_KEYUP} :
          /\ Len(received) < MaxEncodeCalls
          /\ KeyboardHook(65, 30, action, Bits(97), FALSE, FALSE)

SpecMods == Init /\ [][NextMods]_vars

\* Repeat behaviours: the host state is settled before the first call, then
\* calls with either value of was_down are made and answered in any order.
NextWasDown ==
    \/ \E k \in EncodeHostKeys : received = <<>> /\ HostKey(k)
    \/ \E action \in Actions, was_down \in BOOLEAN :
          /\ Len(received) < MaxPairCalls
          /\ KeyboardHook(65, 30, action, Bits(97), FALSE, was_down)
    \/ \E s \in pending, p \in Payloads : Reply(s, p)

SpecWasDown == Init /\ [][NextWasDown]_vars

\* Sampling behaviours: the host state changes before, between and after the
\* calls.
SampleHostKeys == {"VK_SHIFT", "VK_CAPITAL", "VK_A"}

NextSample ==
    \/ \E k \in SampleHostKeys : HostKey(k)
    \/ \E action \in {WM_KEYDOWN, WM_KEYUP} :
          /\ Len(received) < MaxSampleCalls
          /\ KeyboardHook(65, 30, action, Bits(97), FALSE, FALSE)

SpecSample == Init /\ [][NextSample]_vars

\* A stalled consumer: the first kMaxPendingEvents + 1 requests are never
\* answered; the requests made above the ceiling are answered in any order.
NextFlood ==
    \/ /\ Len(received) < kMaxPendingEvents + 1 + MaxFloodExtra
       /\ KeyboardHook(65, 30, WM_KEYDOWN, Bits(97), FALSE, FALSE)
    \/ \E s \in pending, p \in Payloads :
          /\ s > kMaxPendingEvents + 1
          /\ Reply(s, p)

SpecFlood == Init /\ [][NextFlood]_vars

----------------------------------------------------------------------------
(* Vocabulary of the properties.                                            *)

IsDownOrUp(action) == action \in {WM_KEYDOWN, WM_KEYUP}

TypeName(action) == IF action = WM_KEYDOWN THEN "keydown" ELSE "keyup"

Calls == 1..Len(received)
Sends == 1..Len(sent)
Replied == DOMAIN replies

\* The calls with a key-down or key-up action, in the order they were made.
RecognizedCalls ==
    SelectSeq([c \in Calls |-> c], LAMBDA c : IsDownOrUp(received[c].action))

\* The sends a call made: every send carries the callback of its call.
SendsOf(c) == {s \in Sends : sent[s].callback = c}

\* Requests sent and not yet answered.
Unanswered == Len(sent) - Cardinality(Replied)

\* Lines of std::cerr about pending events (any line that is not the
\* unknown-action report).
PendingDiagnostics ==
    Cardinality({i \in 1..Len(cerr) : cerr[i].msg # "Unknown key event action: "})

HasExtendedBit(n) == Bits(kScancodeExtended) \subseteq Bits(n)

DeadCaret == Bits(94) \cup DeadKeyMarker

----------------------------------------------------------------------------
(* C1: for every KeyboardHook call the callback is invoked at most once,    *)
(* and exactly once when the action is unrecognized or the transport has    *)
(* delivered the reply for the call's send.                                 *)
C1_CallbackExactlyOnce ==
    \A c \in Calls :
        /\ Len(invoked[c]) <= 1
        /\ ~IsDownOrUp(received[c].action) => Len(invoked[c]) = 1
        /\ (\E s \in Replied : sent[s].callback = c) => Len(invoked[c]) = 1

(* C2: a call whose action is neither key-down nor key-up has its callback  *)
(* invoked with false by the time the call returns, and makes no send.      *)
C2_UnknownActionFalseNoSend ==
    /\ \A c \in Calls :
          ~IsDownOrUp(received[c].action) =>
              invoked[c] = <<FALSE>> /\ SendsOf(c) = {}
    /\ Len(sent) <= Len(RecognizedCalls)

C2_Witness ==
    \E c \in Calls :
        /\ ~IsDownOrUp(received[c].action)
        /\ invoked[c] = <<FALSE>>
        /\ \E d \in Calls : d < c /\ SendsOf(d) # {}

(* C3: with several requests in flight and replies in any order, a reply    *)
(* that carries a handled field invokes the callback of the call that made  *)
(* the request, with the value of that field; a call whose request has no   *)
(* reply yet has not had its callback invoked by any other reply.           *)
C3_ReplyInvokesOwnCallback ==
    /\ \A s \in Replied :
          WellFormed(replies[s]) =>
              invoked[RecognizedCalls[s]] = <<HandledOf(replies[s])>>
    /\ \A s \in Sends :
          s \notin Replied => invoked[RecognizedCalls[s]] = <<>>

C3_Witness ==
    \E s1 \in Sends, s2 \in Sends :
        /\ s1 < s2
        /\ s1 \notin Replied
        /\ s2 \in Replied
        /\ replies[s2] = ReplyHandled(TRUE)
        /\ invoked[RecognizedCalls[s2]] = <<TRUE>>
        /\ invoked[RecognizedCalls[s1]] = <<>>

(* C4: every call with a key-down or key-up action makes exactly one send,  *)
(* and the records are sent in the order the events were received, the      *)
(* events with another action left out.                                     *)
C4_SendsInOrderReceived ==
    /\ [s \in Sends |-> sent[s].callback] = RecognizedCalls
    /\ \A s \in Sends :
          /\ sent[s].event.type = TypeName(received[sent[s].callback].action)
          /\ sent[s].event.keyCode = received[sent[s].callback].key

C4_Witness ==
    /\ Len(received) = 3
    /\ ~IsDownOrUp(received[2].action)
    /\ Len(sent) = 2
    /\ sent[1].event.type = "keyup"
    /\ sent[2].event.type = "keydown"

(* C5: the handler keeps a pending count that is one higher after each      *)
(* dispatch and one lower after each reply: it always equals the number of  *)
(* requests sent minus the number of replies received, and is never         *)
(* negative.                                                                *)
C5_PendingCountTracksInFlight ==
    /\ pending_events = Len(sent) - Cardinality(Replied)
    /\ pending_events >= 0

(* C6: a step that takes the number of unanswered requests from at most     *)
(* kMaxPendingEvents to above it emits exactly one diagnostic, and no other *)
(* step emits one.                                                          *)
C6_OneDiagnosticPerCrossing ==
    [][PendingDiagnostics' = PendingDiagnostics +
          (IF Unanswered <= kMaxPendingEvents /\ Unanswered' > kMaxPendingEvents
           THEN 1 ELSE 0)]_vars

(* C7: a key-down or key-up call made while more than kMaxPendingEvents     *)
(* requests are unanswered is still sent, with its own callback, and the    *)
(* callback of a request is invoked with the verdict of its reply.          *)
C7_NoThrottleAboveCeiling ==
    /\ [][(/\ Unanswered > kMaxPendingEvents
           /\ Len(received') = Len(received) + 1
           /\ IsDownOrUp(received'[Len(received')].action))
          => (/\ Len(sent') = Len(sent) + 1
              /\ sent'[Len(sent')].callback = Len(received')
              /\ Len(sent') \in pending')]_vars
    /\ [](\A s \in Replied :
            WellFormed(replies[s]) =>
                invoked[sent[s].callback] = <<HandledOf(replies[s])>>)

C7_Witness ==
    /\ Unanswered > kMaxPendingEvents
    /\ \E s \in Replied :
          /\ s > kMaxPendingEvents + 1
          /\ replies[s] = ReplyHandled(TRUE)
          /\ invoked[sent[s].callback] = <<TRUE>>

(* C8: a reply that cannot be decoded or lacks the handled field does not   *)
(* end the process: its continuation tells the callback "not handled".      *)
C8_MalformedReplyDoesNotCrash ==
    /\ ~crashed
    /\ \A s \in Replied :
          ~WellFormed(replies[s]) => invoked[sent[s].callback] = <<FALSE>>

(* C9 as stated: the record sent has type "keydown" for key-down and        *)
(* "keyup" for key-up, and its scanCode has the extended bits (0xe000) set  *)
(* if and only if extended is true.                                         *)
C9_TypeAndExtendedBit ==
    \A s \in Sends :
        LET c == sent[s].callback
        IN  /\ sent[s].event.type = TypeName(received[c].action)
            /\ HasExtendedBit(sent[s].event.scanCode) <=> received[c].extended

(* C9 amended: the record sent has type "keydown" for key-down and "keyup"  *)
(* for key-up, and its scanCode has the extended bits (0xe000) set if and   *)
(* only if extended is true or the native scan code already has them set.   *)
C9_TypeAndExtendedBitAmended ==
    \A s \in Sends :
        LET c == sent[s].callback
        IN  /\ sent[s].event.type = TypeName(received[c].action)
            /\ HasExtendedBit(sent[s].event.scanCode) <=>
                  (received[c].extended \/ HasExtendedBit(received[c].scancode))

C9_Witness ==
    \E s \in Sends :
        /\ received[sent[s].callback].extended
        /\ received[sent[s].callback].scancode = 30
        /\ received[sent[s].callback].action = WM_KEYUP
        /\ sent[s].event.type = "keyup"
        /\ sent[s].event.scanCode = 57374

(* C10: the code point of a record is the native code point with only the   *)
(* marker bit 0x80000000 cleared: normalizing it again changes nothing, a   *)
(* code point without the marker bit is unchanged, and 0x8000005E gives     *)
(* 0x5E.                                                                    *)
C10_UndeadCharClearsMarkerOnly ==
    \A s \in Sends :
        LET x == received[sent[s].callback].character
            n == sent[s].event.characterCodePoint
        IN  /\ n = x \ {31}
            /\ _UndeadChar(n) = n
            /\ 31 \notin x => n = x
            /\ x = DeadCaret => n = Bits(94)

C10_Witness ==
    \E s \in Sends :
        /\ received[sent[s].callback].character = DeadCaret
        /\ sent[s].event.characterCodePoint = Bits(94)

\* The 14 tracked keys of the mask, bit 0 first.
MaskKeys ==
    <<"VK_SHIFT", "VK_LSHIFT", "VK_RSHIFT", "VK_CONTROL", "VK_LCONTROL",
      "VK_RCONTROL", "VK_MENU", "VK_LMENU", "VK_RMENU", "VK_LWIN", "VK_RWIN",
      "VK_CAPITAL", "VK_NUMLOCK", "VK_SCROLL">>

\* The mask of a host state: bit i is set iff the i-th tracked key is down.
MaskOf(ks) == {i \in 0..13 : MaskKeys[i + 1] \in ks}

\* A step in which KeyboardHook makes a send.
SendStep == Len(sent') = Len(sent) + 1

(* C11: the modifiers of a record have bit i (0..13) set if and only if the *)
(* host reports the i-th tracked key down when the record is built; no bit  *)
(* above 13 is set, and no other host key has any effect on the mask.       *)
C11_MaskIsTrackedKeysDown ==
    [][SendStep =>
          LET m == Bits(sent'[Len(sent')].event.modifiers)
          IN  /\ \A i \in 0..13 : i \in m <=> MaskKeys[i + 1] \in key_state
              /\ \A i \in m : i <= 13]_vars

C11_Witness ==
    /\ key_state = {"VK_SHIFT", "VK_RCONTROL", "VK_SCROLL", "VK_A"}
    /\ \E s \in Sends : sent[s].event.modifiers = 1 + 32 + 8192

(* C12: the record sent for a key-down or key-up call has keyCode equal to   *)
(* the native key code, characterCodePoint equal to the code point without  *)
(* the dead-key marker, keymap "windows" and the modifiers sampled at the   *)
(* call; the call (0x41, 0x1E, WM_KEYDOWN, 0x61, extended = false) with no  *)
(* modifier key down sends {keyCode: 65, scanCode: 30,                      *)
(* characterCodePoint: 97, keymap: "windows", modifiers: 0,                 *)
(* type: "keydown"}.                                                        *)
C12_RecordFields ==
    [][SendStep =>
          LET a == received'[Len(received')]
              e == sent'[Len(sent')].event
          IN  /\ e.keyCode = a.key
              /\ e.characterCodePoint = a.character \ {31}
              /\ e.keymap = "windows"
              /\ e.modifiers = Num(MaskOf(key_state))
              /\ (/\ a.key = 65
                  /\ a.scancode = 30
                  /\ a.action = WM_KEYDOWN
                  /\ a.character = Bits(97)
                  /\ ~a.extended
                  /\ MaskOf(key_state) = {})
                 => e = [keyCode |-> 65, scanCode |-> 30,
                         characterCodePoint |-> Bits(97), keymap |-> "windows",
                         modifiers |-> 0, type |-> "keydown"]]_vars

C12_Witness ==
    \E s \in Sends :
        /\ received[sent[s].callback] =
              [key |-> 65, scancode |-> 30, action |-> WM_KEYDOWN,
               character |-> Bits(97), extended |-> FALSE, was_down |-> FALSE]
        /\ sent[s].event.keyCode = 65
        /\ sent[s].event.scanCode = 30
        /\ Num(sent[s].event.characterCodePoint) = 97
        /\ sent[s].event.keymap = "windows"
        /\ sent[s].event.modifiers = 0
        /\ sent[s].event.type = "keydown"

(* C13: a request the transport never answers keeps its callback           *)
(* uninvoked and stays pending until the handler is torn down; once the     *)
(* handler is torn down the unanswered requests are discarded and no        *)
(* callback is invoked any more.                                            *)
C13_UnansweredNeverInvoked ==
    /\ [](\A s \in Sends :
            s \notin Replied =>
                /\ invoked[sent[s].callback] = <<>>
                /\ alive => s \in pending
                /\ ~alive => s \notin pending)
    /\ [][~alive => (invoked' = invoked /\ replies' = replies)]_vars

C13_Witness ==
    /\ ~alive
    /\ Replied # {}
    /\ \E s \in Sends :
          /\ s \notin Replied
          /\ s \notin pending
          /\ invoked[sent[s].callback] = <<>>

(* C14: KeyboardHook never waits for a reply: every call with a key-down or *)
(* key-up action has built and sent its record when it returns, whether or  *)
(* not the reply has arrived, and while the handler exists the next call    *)
(* can be made however many earlier requests are unanswered.                *)
C14_NeverBlocksOnReply ==
    /\ \A c \in Calls :
          IsDownOrUp(received[c].action) => \E s \in Sends : sent[s].callback = c
    /\ (alive /\ ~crashed) =>
          ENABLED KeyboardHook(65, 30, WM_KEYDOWN, Bits(97), FALSE, FALSE)

C14_Witness ==
    /\ alive
    /\ ~crashed
    /\ Len(received) = 3
    /\ Cardinality(pending) = 3
    /\ Replied = {}

\* Two calls with the same arguments but for was_down.
DifferOnlyInWasDown(c, d) ==
    /\ received[c].was_down # received[d].was_down
    /\ [received[c] EXCEPT !.was_down = FALSE]
          = [received[d] EXCEPT !.was_down = FALSE]

(* C15: was_down has no effect: two calls made in the same host modifier    *)
(* state that differ only in was_down send identical records, or both send  *)
(* nothing, and their callbacks are invoked with the same values when their *)
(* requests get the same reply (what a reply without a readable "handled"   *)
(* member does is undefined whatever was_down is).                          *)
C15_WasDownHasNoEffect ==
    \A c, d \in Calls :
        DifferOnlyInWasDown(c, d) =>
            /\ SendsOf(c) = {} <=> SendsOf(d) = {}
            /\ SendsOf(c) = {} => invoked[c] = invoked[d]
            /\ \A sc \in SendsOf(c), sd \in SendsOf(d) :
                  /\ sent[sc].event = sent[sd].event
                  /\ (/\ sc \in Replied
                      /\ sd \in Replied
                      /\ replies[sc] = replies[sd]
                      /\ WellFormed(replies[sc]))
                     => invoked[c] = invoked[d]

C15_Witness ==
    /\ "VK_SHIFT" \in key_state
    /\ \E c, d \in Calls :
          /\ DifferOnlyInWasDown(c, d)
          /\ received[c].action = WM_KEYDOWN
          /\ \E sc \in SendsOf(c), sd \in SendsOf(d) :
                /\ replies = (sc :> ReplyHandled(TRUE)) @@ (sd :> ReplyHandled(TRUE))
                /\ invoked[c] = <<TRUE>>
                /\ invoked[d] = <<TRUE>>

(* C16: the modifier mask is sampled for each record when the record is    *)
(* built and is not cached: every record carries the mask of the host state *)
(* at its own call, also when the state changed since the call before, and  *)
(* a record already sent is not changed by what the host state does later.  *)
C16_MaskSampledPerRecord ==
    [][/\ SendStep =>
             sent'[Len(sent')].event.modifiers = Num(MaskOf(key_state))
       /\ \A s \in Sends : Len(sent') >= s /\ sent'[s] = sent[s]]_vars

C16_Witness ==
    /\ Len(sent) = 2
    /\ sent[1].event.modifiers = 1
    /\ sent[2].event.modifiers = 2048
    /\ key_state = {"VK_A"}

\* A step in which KeyboardHook is called with an action that is neither
\* key-down nor key-up.
UnknownCallStep ==
    /\ Len(received') = Len(received) + 1
    /\ ~IsDownOrUp(received'[Len(received')].action)

(* C17: a call with an unrecognized action leaves the protocol state as it  *)
(* was: the requests in flight, the callbacks registered for them, the      *)
(* pending count and the records sent are unchanged; its only effects are   *)
(* the report on the error stream and the invocation callback(false).       *)
C17_UnknownActionFrame ==
    [][UnknownCallStep =>
          /\ pending' = pending
          /\ sent' = sent
          /\ replies' = replies
          /\ pending_events' = pending_events
          /\ <<key_state, crashed, alive>>' = <<key_state, crashed, alive>>
          /\ invoked' = Append(invoked, <<FALSE>>)
          /\ cerr' = Append(cerr,
                [msg |-> "Unknown key event action: ",
                 action |-> received'[Len(received')].action])]_vars

C17_Witness ==
    /\ Len(received) = 2
    /\ received[2].action = 258
    /\ pending = {1}
    /\ sent[1].callback = 1
    /\ invoked = << <<>>, <<FALSE>> >>
    /\ Len(cerr) = 1

\* The calls with a key-down or key-up action.
Recognized == {c \in Calls : IsDownOrUp(received[c].action)}

(* C18: the callback of a call with a key-down or key-up action is never    *)
(* invoked before the record of the call is sent and only by a reply to     *)
(* that send: whenever it has been invoked the call has exactly one send    *)
(* and that send has been answered, it is invoked at most once per reply,   *)
(* and every step that invokes it is the delivery of the reply to its send. *)
C18_CallbackOnlyAfterSendAndReply ==
    /\ [](\A c \in Recognized :
            /\ invoked[c] # <<>> =>
                  /\ Cardinality(SendsOf(c)) = 1
                  /\ SendsOf(c) \subseteq Replied
            /\ Len(invoked[c]) <= Cardinality(SendsOf(c) \cap Replied))
    /\ [][/\ \A c \in Recognized :
                invoked'[c] # invoked[c] =>
                    \E s \in SendsOf(c) : s \notin Replied /\ s \in DOMAIN replies'
          /\ Len(received') > Len(received)
                /\ IsDownOrUp(received'[Len(received')].action)
             => invoked'[Len(received')] = <<>>]_vars

C18_Witness ==
    /\ Len(received) = 2
    /\ Recognized = {1, 2}
    /\ Replied = {2}
    /\ sent[2].callback = 2
    /\ replies[2] = ReplyHandled(TRUE)
    /\ invoked = << <<>>, <<TRUE>> >>
    /\ pending = {1}

============================================================================
